---- MODULE Spec2Model ----
(***************************************************************************)
(* State-machine model of libs/common/bitcoin/liquid/psetview.py:          *)
(*   skip_commitment, GlobalLTransactionView (lazy, offset-cached view of  *)
(*   the unsigned Elements transaction inside a PSET) and PSETView (digest *)
(*   caches and sighash_segwit).                                           *)
(* The stream is a Python binary stream (io.BytesIO / file): read(n)       *)
(* returns at most n bytes and never raises at end of data, seek may move  *)
(* past the end.  skip_commitment's `assert len(c) == 1` relies on this.   *)
(***************************************************************************)
EXTENDS Integers, Sequences, FiniteSets, TLC

VARIABLES
    data,               \* bytes of the underlying stream
    ins,                \* the inputs the document was serialized from
    outs,               \* the outputs the document was serialized from
    offset,             \* GlobalTransactionView.offset
    pos,                \* stream position
    _num_vin,           \* cached fields of the view (NONE = None)
    _vin0_offset,
    _num_vout_offset,
    _num_vout,
    _vout0_offset,
    has_tx,             \* PSETView.tx is a view (TRUE) or None (FALSE)
    value,                \* the spent output's value handed to sighash_segwit
    _hash_issuances,    \* cached digests of the PSETView (EMPTY = None)
    _hash_rangeproofs,
    _hash_outputs,
    memo,               \* history: what each memoized accessor returned first
    last                \* the last call: operation, argument, outcome

vars == <<data, ins, outs, offset, pos, _num_vin, _vin0_offset,
          _num_vout_offset, _num_vout, _vout0_offset, has_tx, value,
          _hash_issuances, _hash_rangeproofs, _hash_outputs, memo, last>>

(***************************************************************************)
(* Bounds of the model                                                     *)
(***************************************************************************)
MaxVin == 2
MaxVout == 2
MaxCommitments == 2

(***************************************************************************)
(* Program constants                                                       *)
(***************************************************************************)
NONE == -1
NUM_VIN_OFFSET == 5
TXID_LEN == 32
VOUT_LEN == 4
SCRIPTSIG_SEQUENCE_LEN == 5
ISSUANCE_FIXED_LEN == 64
ASSET_LEN == 33
EXPLICIT_PAYLOAD == 8
BLINDED_PAYLOAD == 32

Min(a, b) == IF a < b THEN a ELSE b
EMPTY == <<>>
Rep(b, n) == [k \in 1..n |-> b]
Reverse(s) == [k \in 1..Len(s) |-> s[Len(s) + 1 - k]]

(***************************************************************************)
(* compact-size integers (bitcoin/compact.py)                              *)
(***************************************************************************)
compact_to_bytes(i) ==
    IF i < 253 THEN <<i>>
    ELSE IF i < 65536 THEN <<253, i % 256, i \div 256>>
    ELSE <<254, i % 256, (i \div 256) % 256, (i \div 65536) % 256, i \div 16777216>>

\* int.from_bytes(b, "little").  Integers here are below 2^31, so a value is
\* computed only when it is below 2^24 (Fits); a call that reads a larger
\* length is left out of the model.
Fits(b) == \A k \in 4..Len(b) : b[k] = 0

RECURSIVE from_bytes_little(_)
from_bytes_little(b) ==
    IF Len(b) = 0 THEN 0 ELSE b[1] + 256 * from_bytes_little(Tail(b))

\* A 32-bit field as its four little-endian bytes (a short read is zero-extended,
\* as int.from_bytes does)
u32(b) == [k \in 1..4 |-> IF k <= Len(b) THEN b[k] ELSE 0]
NULL_VOUT == <<255, 255, 255, 255>>
\* vout & (1 << 31) != 0
has_issuance_bit(x) == x[4] >= 128

(***************************************************************************)
(* The wire format: how a document is serialized from its inputs and       *)
(* outputs.  This is the reference the accessors are compared with.        *)
(***************************************************************************)
\* vout field, scriptsig length, issuance commitment tags (<<>>: no issuance)
InputKinds ==
    { [vout |-> NULL_VOUT,        sig |-> 0, iss |-> <<>>],
      [vout |-> <<1, 0, 0, 0>>,   sig |-> 0, iss |-> <<>>],
      [vout |-> <<0, 0, 0, 192>>, sig |-> 0, iss |-> <<0, 9>>],
      [vout |-> <<2, 0, 0, 128>>, sig |-> 0, iss |-> <<1, 1>>],
      [vout |-> <<1, 0, 0, 0>>,   sig |-> 1, iss |-> <<>>] }

\* value tag, nonce tag, script length
OutputKinds ==
    { [value |-> 1, nonce |-> 0, script |-> 0],
      [value |-> 8, nonce |-> 2, script |-> 2] }

CommitmentBytes(tag) ==
    IF tag = 0 THEN <<0>>
    ELSE IF tag = 1 THEN <<1>> \o Rep(17, EXPLICIT_PAYLOAD)
    ELSE <<tag>> \o Rep(136, BLINDED_PAYLOAD)

TxidBytes(j) == [k \in 1..TXID_LEN |-> 32 * j + k]

InputBytes(j, inp) ==
    TxidBytes(j) \o inp.vout \o <<inp.sig>> \o Rep(81, inp.sig)
      \o Rep(255, 4)
      \o (IF inp.iss = <<>> THEN <<>>
          ELSE Rep(119, ISSUANCE_FIXED_LEN) \o CommitmentBytes(inp.iss[1])
                 \o CommitmentBytes(inp.iss[2]))

AssetBytes(j) == <<10>> \o [k \in 1..(ASSET_LEN - 1) |-> 160 + j]

OutputBytes(j, out) ==
    AssetBytes(j) \o CommitmentBytes(out.value)
      \o (IF out.nonce = 0 THEN <<0>> ELSE <<out.nonce>> \o Rep(34, 32))
      \o compact_to_bytes(out.script) \o Rep(100 + j, out.script)

RECURSIVE InputsBytes(_, _)
InputsBytes(is, n) ==
    IF n = 0 THEN <<>> ELSE InputsBytes(is, n - 1) \o InputBytes(n, is[n])

RECURSIVE OutputsBytes(_, _)
OutputsBytes(os, n) ==
    IF n = 0 THEN <<>> ELSE OutputsBytes(os, n - 1) \o OutputBytes(n, os[n])

\* Bytes removed from the end of the stream: none, the locktime and the end of
\* the last script, or enough to cut into the last record
Cuts == {0, 6, 45}
\* Where the transaction starts in the stream
Offsets == {3}

Document(off, is, os) ==
    Rep(112, off) \o <<2, 0, 0, 0>> \o <<0>>
      \o compact_to_bytes(Len(is)) \o InputsBytes(is, Len(is))
      \o compact_to_bytes(Len(os)) \o OutputsBytes(os, Len(os))
      \o <<0, 0, 0, 0>>

SeqsUpTo(S, n) == UNION { [1..k -> S] : k \in 0..n }

(***************************************************************************)
(* A call in progress is the record v:                                     *)
(*   pos           stream position                                         *)
(*   io, bv        reads and seeks, and blinded_vout calls, made so far    *)
(*   err           the exception raised ("none" while the call runs);      *)
(*                 after an exception nothing more runs                    *)
(*   ret, rec      value of the last expression (integer, bytes)           *)
(*   start         where the returned record's deserialization began       *)
(*   log           the _skip_input/_skip_output calls made: where each     *)
(*                 started and ended, what it returned                     *)
(*   nvin .. ho    the cached fields of the two views                      *)
(*   memo          what each memoized accessor returned first              *)
(***************************************************************************)
Ok(v) == v.err = "none"
Raise(v, e) == IF Ok(v) THEN [v EXCEPT !.err = e] ELSE v
Return(v, x) == IF Ok(v) THEN [v EXCEPT !.ret = x] ELSE v
ReturnBytes(v, b) == IF Ok(v) THEN [v EXCEPT !.rec = b] ELSE v

\* stream.seek(p)
seek(v, p) == IF Ok(v) THEN [v EXCEPT !.pos = p, !.io = @ + 1] ELSE v
\* stream.seek(n, 1)
seek_cur(v, n) == seek(v, v.pos + n)
\* stream.seek(x) where x is the value just computed
seek_to_ret(v) == seek(v, v.ret)
\* the bytes stream.read(n) returns at v's position: short at the end of data
peek(v, n) == SubSeq(data, v.pos + 1, Min(v.pos + n, Len(data)))
\* the stream after stream.read(n)
read(v, n) ==
    IF Ok(v) THEN [v EXCEPT !.pos = @ + Len(peek(v, n)), !.io = @ + 1] ELSE v

\* compact.read_from(stream), after the prefix byte: the n bytes of the value
compact_read_value(v, n) ==
    IF ~Fits(peek(v, n)) THEN Raise(v, "unmodelled")
    ELSE Return(read(v, n), from_bytes_little(peek(v, n)))

\* compact.read_from(stream)
compact_read_from(v) ==
    LET c == peek(v, 1)
    IN  IF ~Ok(v) THEN v
        ELSE IF Len(c) # 1 THEN Raise(read(v, 1), "RuntimeError")
        ELSE IF c[1] = 253 THEN compact_read_value(read(v, 1), 2)
        ELSE IF c[1] = 254 THEN compact_read_value(read(v, 1), 4)
        ELSE IF c[1] = 255 THEN compact_read_value(read(v, 1), 8)
        ELSE Return(read(v, 1), c[1])

(***************************************************************************)
(* skip_commitment                                                         *)
(***************************************************************************)
\* Variant of skip_commitment that skips the explicit payload as 9 bytes
skip_commitment_long_explicit(v) ==
    LET c == peek(v, 1)
    IN  IF ~Ok(v) THEN v
        ELSE IF Len(c) # 1 THEN Raise(read(v, 1), "AssertionError")
        ELSE IF c = <<0>> THEN Return(read(v, 1), 1)
        ELSE IF c = <<1>> THEN Return(seek_cur(read(v, 1), EXPLICIT_PAYLOAD + 1), 9)
        ELSE Return(seek_cur(read(v, 1), BLINDED_PAYLOAD), 33)

skip_commitment(v) ==
    LET c == peek(v, 1)
    IN  IF ~Ok(v) THEN v
        ELSE IF Len(c) # 1 THEN Raise(read(v, 1), "AssertionError")
        ELSE IF c = <<0>> THEN Return(read(v, 1), 1)
        ELSE IF c = <<1>> THEN Return(seek_cur(read(v, 1), EXPLICIT_PAYLOAD), 9)
        ELSE Return(seek_cur(read(v, 1), BLINDED_PAYLOAD), 33)

(***************************************************************************)
(* GlobalTransactionView (parent): num_vin, vin0_offset                    *)
(***************************************************************************)
store_num_vin(v) == IF Ok(v) THEN [v EXCEPT !.nvin = v.ret] ELSE v

num_vin(v) ==
    IF ~Ok(v) THEN v
    ELSE IF v.nvin = NONE
    THEN store_num_vin(compact_read_from(seek(v, offset + NUM_VIN_OFFSET)))
    ELSE Return(v, v.nvin)

store_vin0_offset(v) ==
    LET o == offset + NUM_VIN_OFFSET + Len(compact_to_bytes(v.ret))
    IN  IF Ok(v) THEN [v EXCEPT !.vin0 = o, !.ret = o] ELSE v

vin0_offset(v) ==
    IF ~Ok(v) THEN v
    ELSE IF v.vin0 = NONE THEN store_vin0_offset(num_vin(v))
    ELSE Return(v, v.vin0)

(***************************************************************************)
(* GlobalLTransactionView                                                  *)
(***************************************************************************)
Logged(fn, v, r) ==
    [r EXCEPT !.log = Append(@, [fn |-> fn, from |-> v.pos, to |-> r.pos,
                                 err |-> r.err,
                                 ret |-> IF Ok(r) THEN r.ret ELSE NONE])]

\* off += <the value just returned>
add_ret(v, off) == Return(v, off + v.ret)

\* _skip_input, lines 71-74: nonce and entropy, then the two commitments
\* off += skip_commitment(self.stream), line 74: v.ret holds off
token_commitment(v) == add_ret(skip_commitment(v), v.ret)

\* Variant of skip_issuance that takes nonce and entropy for 32 bytes in all
skip_issuance_short(v, off) ==
    token_commitment(add_ret(skip_commitment(seek_cur(v, 32)), off + 32))

skip_issuance(v, off) ==
    token_commitment(add_ret(skip_commitment(seek_cur(v, ISSUANCE_FIXED_LEN)),
                             off + ISSUANCE_FIXED_LEN))

\* _skip_input, lines 64-75: v is the stream after the txid was skipped
skip_input_fields(v, off) ==
    LET vout == u32(peek(v, VOUT_LEN))
        has_issuance == has_issuance_bit(vout)
    IN  IF vout # NULL_VOUT /\ has_issuance
        THEN skip_issuance(seek_cur(read(v, VOUT_LEN), SCRIPTSIG_SEQUENCE_LEN), off)
        ELSE Return(seek_cur(read(v, VOUT_LEN), SCRIPTSIG_SEQUENCE_LEN), off)

_skip_input(v) ==
    IF ~Ok(v) THEN v
    ELSE skip_input_fields(seek_cur(v, TXID_LEN),
                           TXID_LEN + VOUT_LEN + SCRIPTSIG_SEQUENCE_LEN)

\* for i in range(n): off += self._skip_input()
RECURSIVE skip_inputs(_, _, _)
skip_inputs_add(v, n, off) == skip_inputs(v, n, off + v.ret)
skip_inputs(v, n, off) ==
    IF n = 0 \/ ~Ok(v) THEN Return(v, off)
    ELSE skip_inputs_add(Logged("_skip_input", v, _skip_input(v)), n - 1, off)

store_num_vout_offset(v) == IF Ok(v) THEN [v EXCEPT !.nvo = v.ret] ELSE v

\* num_vout_offset, lines 33-36: v holds vin0_offset
scan_inputs(v, off) == skip_inputs(v, v.ret, off)
seek_and_scan_inputs(v) == scan_inputs(num_vin(seek(v, v.ret)), v.ret)

num_vout_offset(v) ==
    IF ~Ok(v) THEN v
    ELSE IF v.nvo = NONE
    THEN store_num_vout_offset(seek_and_scan_inputs(vin0_offset(v)))
    ELSE Return(v, v.nvo)

Remember(v, name) ==
    IF Ok(v) /\ v.memo[name] = EMPTY
    THEN [v EXCEPT !.memo[name] = IF name = "num_vout" THEN <<v.ret>> ELSE v.rec]
    ELSE v

store_num_vout(v) == IF Ok(v) THEN [v EXCEPT !.nvout = v.ret] ELSE v

num_vout(v) ==
    IF ~Ok(v) THEN v
    ELSE IF v.nvout = NONE
    THEN Remember(store_num_vout(compact_read_from(seek_to_ret(num_vout_offset(v)))),
                  "num_vout")
    ELSE Remember(Return(v, v.nvout), "num_vout")

store_vout0_offset(v, nvo) ==
    LET o == nvo + Len(compact_to_bytes(v.ret))
    IN  IF Ok(v) THEN [v EXCEPT !.vout0 = o, !.ret = o] ELSE v

add_num_vout_length(v) == store_vout0_offset(num_vout(v), v.ret)

vout0_offset(v) ==
    IF ~Ok(v) THEN v
    ELSE IF v.vout0 = NONE THEN add_num_vout_length(num_vout_offset(v))
    ELSE Return(v, v.vout0)

\* _skip_output, lines 88-89
skip_script(v) == seek_cur(v, v.ret)

\* Variant of skip_nonce_script that skips the nonce tag twice
skip_nonce_script_long(v) ==
    IF peek(v, 1) # <<0>>
    THEN skip_script(compact_read_from(seek_cur(read(v, 1), 33)))
    ELSE skip_script(compact_read_from(read(v, 1)))

\* _skip_output, lines 85-89: v is the stream after the value
skip_nonce_script(v) ==
    IF peek(v, 1) # <<0>>
    THEN skip_script(compact_read_from(seek_cur(read(v, 1), 32)))
    ELSE skip_script(compact_read_from(read(v, 1)))

\* _skip_output, lines 80-89: v is the stream after the asset
skip_value_nonce_script(v) ==
    IF peek(v, 1) # <<1>>
    THEN skip_nonce_script(seek_cur(read(v, 1), BLINDED_PAYLOAD))
    ELSE skip_nonce_script(seek_cur(read(v, 1), EXPLICIT_PAYLOAD))

_skip_output(v) ==
    IF ~Ok(v) THEN v ELSE skip_value_nonce_script(seek_cur(v, ASSET_LEN))

\* while n: self._skip_output(); n -= 1
RECURSIVE skip_outputs(_, _)
skip_outputs(v, n) ==
    IF n = 0 \/ ~Ok(v) THEN v
    ELSE skip_outputs(Logged("_skip_output", v, Return(_skip_output(v), 0)), n - 1)

\* for j in range(i): self._skip_input()
RECURSIVE skip_inputs_only(_, _)
skip_inputs_only(v, n) ==
    IF n = 0 \/ ~Ok(v) THEN v
    ELSE skip_inputs_only(Logged("_skip_input", v, _skip_input(v)), n - 1)

\* Script.read_from(stream): a compact length, then that many bytes
read_script_bytes(v) ==
    LET b == peek(v, v.ret)
    IN  IF ~Ok(v) THEN v
        ELSE IF Len(b) # v.ret THEN Raise(read(v, v.ret), "ValueError")
        ELSE ReturnBytes(read(v, v.ret), b)

Script_read_from(v) == read_script_bytes(compact_read_from(v))

\* LTransactionInput.read_from(stream): txid (kept reversed), vout (flag bits
\* removed unless it is 0xFFFFFFFF), scriptsig, sequence; returned as the 40
\* bytes txid, vout, sequence
clear_flags(raw) == IF raw = NULL_VOUT THEN raw ELSE [raw EXCEPT ![4] = @ % 64]

read_sequence(v, acc, start) ==
    [ReturnBytes(read(v, 4), acc \o u32(peek(v, 4))) EXCEPT !.start = start]

read_vout_scriptsig(v, txid, start) ==
    read_sequence(Script_read_from(read(v, VOUT_LEN)),
                  txid \o clear_flags(u32(peek(v, VOUT_LEN))), start)

LTransactionInput_read_from(v) ==
    IF ~Ok(v) THEN v
    ELSE read_vout_scriptsig(read(v, TXID_LEN), Reverse(peek(v, TXID_LEN)), v.pos)

\* LTransactionOutput.read_from(stream): asset, value, nonce, script_pubkey;
\* returned as the bytes asset, script_pubkey
read_script_pubkey(v, asset, start) ==
    [ReturnBytes(v, asset \o v.rec) EXCEPT !.start = start]

read_nonce_script(v, asset, start) ==
    IF peek(v, 1) # <<0>>
    THEN read_script_pubkey(Script_read_from(read(read(v, 1), 32)), asset, start)
    ELSE read_script_pubkey(Script_read_from(read(v, 1)), asset, start)

read_value_nonce_script(v, asset, start) ==
    IF peek(v, 1) # <<1>>
    THEN read_nonce_script(read(read(v, 1), BLINDED_PAYLOAD), asset, start)
    ELSE read_nonce_script(read(read(v, 1), EXPLICIT_PAYLOAD), asset, start)

LTransactionOutput_read_from(v) ==
    IF ~Ok(v) THEN v
    ELSE read_value_nonce_script(read(v, ASSET_LEN), peek(v, ASSET_LEN), v.pos)

\* vin, lines 54-59: v holds num_vin
vin_checked(v, i) ==
    IF ~Ok(v) THEN v
    ELSE IF i >= v.ret THEN Raise(v, "PSBTError")
    ELSE LTransactionInput_read_from(skip_inputs_only(seek_to_ret(vin0_offset(v)), i))

vin(v, i) == IF i < 0 THEN Raise(v, "PSBTError") ELSE vin_checked(num_vin(v), i)

\* Variant of vout_checked that accepts i = num_vout
vout_checked_inclusive(v, i) ==
    IF ~Ok(v) THEN v
    ELSE IF i > v.ret THEN Raise(v, "PSBTError")
    ELSE LTransactionOutput_read_from(skip_outputs(seek_to_ret(vout0_offset(v)), i))

\* vout, lines 92-99: v holds num_vout
vout_checked(v, i) ==
    IF ~Ok(v) THEN v
    ELSE IF i >= v.ret THEN Raise(v, "PSBTError")
    ELSE LTransactionOutput_read_from(skip_outputs(seek_to_ret(vout0_offset(v)), i))

vout(v, i) == IF i < 0 THEN Raise(v, "PSBTError") ELSE vout_checked(num_vout(v), i)

(***************************************************************************)
(* PSBTView (parent) and the collaborators of PSETView.  Digests and       *)
(* serializations are symbolic: sha256 is injective, and every value the   *)
(* collaborators return is a tagged token (tags are negative, bytes are    *)
(* 0..255).                                                                *)
(***************************************************************************)
sha256(x) == <<-1>> \o x \o <<-2>>
zero == Rep(0, 32)
hash_prevouts == sha256(<<-3>>)
hash_sequence == sha256(<<-4>>)
out_serialize(i) == <<-5, i>>
range_proof_serialize(i) == <<-6, i>>
surjection_proof_serialize(i) == <<-7, i>>
witness_serialize(i) == <<-8, i>>
script_pubkey_serialize == <<-9>>
tx_version_bytes == <<2, 0, 0, 0>>
locktime_bytes == <<0, 0, 0, 0>>
num_inputs == Len(ins)
num_outputs == Len(outs)

\* SIGHASH / LSIGHASH
SIGHASH_DEFAULT == 0
SIGHASH_ALL == 1
SIGHASH_NONE == 2
SIGHASH_SINGLE == 3
RANGEPROOF == 64
ANYONECANPAY == 128

\* LSIGHASH.check(sighash): (sh, anyonecanpay, hash_rangeproofs), or invalid
LSIGHASH_check(sighash) ==
    LET acp == (sighash \div ANYONECANPAY) % 2 = 1
        rp == (sighash \div RANGEPROOF) % 2 = 1
        sh == sighash % RANGEPROOF
    IN  [valid |-> sh \in {SIGHASH_DEFAULT, SIGHASH_ALL, SIGHASH_NONE, SIGHASH_SINGLE},
         sh |-> sh, anyonecanpay |-> acp, hash_rangeproofs |-> rp]

\* self.output(i).blinded_vout: reads the output's scope from the stream
blinded_vout(v, i) == IF Ok(v) THEN [v EXCEPT !.bv = @ + 1, !.io = @ + 1] ELSE v

\* seek_to_scope(i) and _get_value(key, from_current=True) of input i's scope
scope_value(v, i, key) ==
    LET x == IF key = 14 THEN TxidBytes(i + 1)
             ELSE IF key = 15 THEN ins[i + 1].vout
             ELSE IF i % 2 = 0 THEN <<254, 255, 255, 255>> ELSE EMPTY
    IN  ReturnBytes(seek(v, v.pos), x)

(***************************************************************************)
(* PSETView                                                                *)
(***************************************************************************)
clear_cache(v) == [v EXCEPT !.ho = EMPTY, !.hr = EMPTY, !.hi = EMPTY]

\* PSETView.vin, lines 127-135: acc is what was read so far
scope_sequence(v, acc) ==
    ReturnBytes(v, acc \o u32(IF v.rec # EMPTY THEN v.rec ELSE <<255, 255, 255, 255>>))

scope_vout(v, i, txid) == scope_sequence(scope_value(v, i, 16), txid \o u32(v.rec))

scope_txid(v, i) == scope_vout(scope_value(v, i, 15), i, Reverse(v.rec))

pset_vin(v, i) ==
    IF i < 0 \/ i >= num_inputs THEN Raise(v, "PSBTError")
    ELSE IF has_tx THEN vin(v, i)
    ELSE scope_txid(scope_value(v, i, 14), i)

hash_issuances(v) ==
    LET d == sha256(Rep(0, num_inputs))
    IN  IF ~Ok(v) THEN v
        ELSE IF v.hi = EMPTY
        THEN Remember(ReturnBytes([v EXCEPT !.hi = d], d), "hash_issuances")
        ELSE Remember(ReturnBytes(v, v.hi), "hash_issuances")

\* the loop of hash_rangeproofs from output i on: h is what was hashed so far
RECURSIVE rangeproofs_loop(_, _, _)
rangeproofs_loop(v, i, h) ==
    IF i >= num_outputs THEN ReturnBytes(v, h)
    ELSE rangeproofs_loop(blinded_vout(v, i), i + 1,
                          h \o range_proof_serialize(i) \o surjection_proof_serialize(i))

store_hash_rangeproofs(v) ==
    LET d == sha256(v.rec)
    IN  ReturnBytes([v EXCEPT !.hr = d], d)

hash_rangeproofs(v) ==
    IF ~Ok(v) THEN v
    ELSE IF v.hr = EMPTY
    THEN Remember(store_hash_rangeproofs(rangeproofs_loop(v, 0, EMPTY)), "hash_rangeproofs")
    ELSE Remember(ReturnBytes(v, v.hr), "hash_rangeproofs")

RECURSIVE outputs_loop(_, _, _)
outputs_loop(v, i, h) ==
    IF i >= num_outputs THEN ReturnBytes(v, h)
    ELSE outputs_loop(blinded_vout(v, i), i + 1, h \o out_serialize(i))

store_hash_outputs(v) ==
    LET d == sha256(v.rec)
    IN  ReturnBytes([v EXCEPT !.ho = d], d)

\* Variant of hash_outputs that never uses the digest it stored
hash_outputs_uncached(v) ==
    IF ~Ok(v) THEN v
    ELSE Remember(store_hash_outputs(outputs_loop(v, 0, EMPTY)), "hash_outputs")

hash_outputs(v) ==
    IF ~Ok(v) THEN v
    ELSE IF v.ho = EMPTY
    THEN Remember(store_hash_outputs(outputs_loop(v, 0, EMPTY)), "hash_outputs")
    ELSE Remember(ReturnBytes(v, v.ho), "hash_outputs")

\* The h.update() arguments of sighash_segwit, in order, as v.upd; the digest
\* returned is the double SHA-256 of their concatenation.
Update(v, b) == IF Ok(v) THEN [v EXCEPT !.upd = Append(@, b)] ELSE v
\* h.update(hashlib.sha256(<the digest just returned>).digest())
UpdateHashOfRet(v) == Update(v, sha256(v.rec))

RECURSIVE Concat(_)
Concat(ss) == IF Len(ss) = 0 THEN EMPTY ELSE Head(ss) \o Concat(Tail(ss))

\* sighash_segwit, lines 176-179
prevouts_term(v, anyonecanpay) ==
    IF anyonecanpay THEN Update(v, zero) ELSE Update(v, sha256(hash_prevouts))

\* Variant of sequences_term that looks at the base mode only
sequences_term_base_only(v, sh, anyonecanpay) ==
    IF sh \in {SIGHASH_NONE, SIGHASH_SINGLE}
    THEN Update(v, zero)
    ELSE Update(v, sha256(hash_sequence))

\* sighash_segwit, lines 180-183
sequences_term(v, sh, anyonecanpay) ==
    IF anyonecanpay \/ sh \in {SIGHASH_NONE, SIGHASH_SINGLE}
    THEN Update(v, zero)
    ELSE Update(v, sha256(hash_sequence))

\* sighash_segwit, lines 184-192: inp is the 40 bytes of the signed input
input_terms(v, inp) ==
    Update(
      IF value.is_int
      THEN Update(Update(Update(Update(UpdateHashOfRet(hash_issuances(v)),
                    Reverse(SubSeq(inp, 1, 32))), SubSeq(inp, 33, 36)),
                    script_pubkey_serialize),
                  <<1>> \o Rep(0, 7) \o <<value.amount>>)
      ELSE Update(Update(Update(Update(UpdateHashOfRet(hash_issuances(v)),
                    Reverse(SubSeq(inp, 1, 32))), SubSeq(inp, 33, 36)),
                    script_pubkey_serialize),
                  value.bytes),
      SubSeq(inp, 37, 40))

\* sighash_segwit, lines 198-200
single_output_term(v, input_index, hash_rp) ==
    IF hash_rp
    THEN Update(blinded_vout(Update(blinded_vout(v, input_index),
                                    sha256(sha256(out_serialize(input_index)))),
                             input_index),
                sha256(sha256(witness_serialize(input_index))))
    ELSE Update(blinded_vout(v, input_index), sha256(sha256(out_serialize(input_index))))

\* Variant of outputs_term that hashes a single output for every SINGLE
outputs_term_unbounded(v, input_index, sh, hash_rp) ==
    IF ~(sh \in {SIGHASH_NONE, SIGHASH_SINGLE})
    THEN IF hash_rp
         THEN UpdateHashOfRet(hash_rangeproofs(UpdateHashOfRet(hash_outputs(v))))
         ELSE UpdateHashOfRet(hash_outputs(v))
    ELSE IF sh = SIGHASH_SINGLE
    THEN single_output_term(v, input_index, hash_rp)
    ELSE Update(v, zero)

\* sighash_segwit, lines 193-202
outputs_term(v, input_index, sh, hash_rp) ==
    IF ~(sh \in {SIGHASH_NONE, SIGHASH_SINGLE})
    THEN IF hash_rp
         THEN UpdateHashOfRet(hash_rangeproofs(UpdateHashOfRet(hash_outputs(v))))
         ELSE UpdateHashOfRet(hash_outputs(v))
    ELSE IF sh = SIGHASH_SINGLE /\ input_index < num_outputs
    THEN single_output_term(v, input_index, hash_rp)
    ELSE Update(v, zero)

\* sighash_segwit, line 205
digest(v) == ReturnBytes(v, sha256(sha256(Concat(v.upd))))

\* sighash_segwit, lines 173-205: v is the call after self.vin(input_index)
preimage(v, input_index, sighash, f) ==
    digest(Update(Update(
      outputs_term(
        input_terms(
          sequences_term(
            prevouts_term(Update(v, tx_version_bytes), f.anyonecanpay),
            f.sh, f.anyonecanpay),
          v.rec),
        input_index, f.sh, f.hash_rangeproofs),
      locktime_bytes), <<sighash, 0, 0, 0>>))

sighash_segwit(v, input_index, sighash) ==
    IF input_index < 0 \/ input_index >= num_inputs THEN Raise(v, "PSBTError")
    ELSE IF ~LSIGHASH_check(sighash).valid THEN Raise(v, "TransactionError")
    ELSE preimage(pset_vin(v, input_index), input_index, sighash, LSIGHASH_check(sighash))

(***************************************************************************)
(* The calls a user makes, each one whole call                             *)
(***************************************************************************)
Call(p) ==
    [pos |-> p, io |-> 0, bv |-> 0, err |-> "none", ret |-> 0, rec |-> EMPTY,
     start |-> NONE, log |-> <<>>, upd |-> <<>>,
     nvin |-> _num_vin, vin0 |-> _vin0_offset, nvo |-> _num_vout_offset,
     nvout |-> _num_vout, vout0 |-> _vout0_offset,
     hi |-> _hash_issuances, hr |-> _hash_rangeproofs, ho |-> _hash_outputs,
     memo |-> memo]

Memoized == {"num_vout", "hash_issuances", "hash_rangeproofs", "hash_outputs"}
NoMemo == [a \in Memoized |-> EMPTY]

Done(op, arg, flags, from, v) ==
    /\ v.err # "unmodelled"
    /\ pos' = v.pos
    /\ _num_vin' = v.nvin
    /\ _vin0_offset' = v.vin0
    /\ _num_vout_offset' = v.nvo
    /\ _num_vout' = v.nvout
    /\ _vout0_offset' = v.vout0
    /\ _hash_issuances' = v.hi
    /\ _hash_rangeproofs' = v.hr
    /\ _hash_outputs' = v.ho
    /\ memo' = v.memo
    /\ last' = [op |-> op, arg |-> arg, flags |-> flags, from |-> from,
                err |-> v.err,
                ret |-> IF Ok(v) THEN v.ret ELSE NONE,
                rec |-> IF Ok(v) THEN v.rec ELSE EMPTY,
                start |-> v.start, to |-> v.pos, io |-> v.io, bv |-> v.bv,
                log |-> v.log, upd |-> v.upd,
                prev |-> IF op \in Memoized THEN memo[op] ELSE EMPTY]
    /\ UNCHANGED <<data, ins, outs, offset, has_tx, value>>

Vin == \E i \in -1..MaxVin : Done("vin", i, 0, pos, vin(Call(pos), i))

Vout == \E i \in -1..MaxVout : Done("vout", i, 0, pos, vout(Call(pos), i))

NumVout == Done("num_vout", 0, 0, pos, num_vout(Call(pos)))

NumVoutOffset == Done("num_vout_offset", 0, 0, pos, num_vout_offset(Call(pos)))

Vout0Offset == Done("vout0_offset", 0, 0, pos, vout0_offset(Call(pos)))

\* skip_commitment(stream) on a stream the caller left at position p
SkipCommitment ==
    \E p \in 0..Len(data) :
        Done("skip_commitment", p, 0, p, skip_commitment(Call(p)))

HashIssuances == Done("hash_issuances", 0, 0, pos, hash_issuances(Call(pos)))

HashRangeproofs == Done("hash_rangeproofs", 0, 0, pos, hash_rangeproofs(Call(pos)))

HashOutputs == Done("hash_outputs", 0, 0, pos, hash_outputs(Call(pos)))

\* clear_cache(): the digests are forgotten, and with them what the accessors
\* returned before
ClearCache ==
    /\ last.op # "clear_cache"
    /\ Done("clear_cache", 0, 0, pos, [clear_cache(Call(pos)) EXCEPT !.memo = NoMemo])

Sighashes ==
    { b + r + a : b \in {SIGHASH_DEFAULT, SIGHASH_ALL, SIGHASH_NONE, SIGHASH_SINGLE},
                  r \in {0, RANGEPROOF}, a \in {0, ANYONECANPAY} } \cup {4}

SighashSegwit ==
    \E i \in -1..MaxVin, sighash \in Sighashes :
        Done("sighash_segwit", i, sighash, pos, sighash_segwit(Call(pos), i, sighash))

NoLast ==
    [op |-> "init", arg |-> 0, flags |-> 0, from |-> 0, err |-> "none", ret |-> NONE,
     rec |-> EMPTY, start |-> NONE, to |-> 0, io |-> 0, bv |-> 0, log |-> <<>>,
     upd |-> <<>>, prev |-> EMPTY]

\* __init__ of the views: nothing is read, every cached field is None
Fresh ==
    /\ pos = 0
    /\ _num_vin = NONE
    /\ _vin0_offset = NONE
    /\ _num_vout_offset = NONE
    /\ _num_vout = NONE
    /\ _vout0_offset = NONE
    /\ _hash_issuances = EMPTY
    /\ _hash_rangeproofs = EMPTY
    /\ _hash_outputs = EMPTY
    /\ memo = NoMemo
    /\ last = NoLast

Values ==
    { [is_int |-> TRUE, amount |-> 5, bytes |-> EMPTY],
      [is_int |-> FALSE, amount |-> 0, bytes |-> <<8>> \o Rep(136, 32)] }

PlainInput == [vout |-> <<1, 0, 0, 0>>, sig |-> 0, iss |-> <<>>]
PlainOutput == [value |-> 1, nonce |-> 0, script |-> 0]
AllIn(s, S) == \A k \in 1..Len(s) : s[k] \in S

\* The documents: every sequence of input kinds with plain outputs, and every
\* sequence of output kinds with plain inputs
Documents ==
    /\ offset \in Offsets
    /\ ins \in SeqsUpTo(InputKinds, MaxVin)
    /\ outs \in SeqsUpTo(OutputKinds, MaxVout)
    /\ AllIn(ins, {PlainInput}) \/ AllIn(outs, {PlainOutput})

(***************************************************************************)
(* Spec: a GlobalLTransactionView over a stream that holds a document,     *)
(* possibly cut short                                                      *)
(***************************************************************************)
Init ==
    /\ Documents
    /\ \E cut \in Cuts :
         LET d == Document(offset, ins, outs)
         IN  data = SubSeq(d, 1, Len(d) - cut)
    /\ has_tx = TRUE
    /\ value \in {x \in Values : x.is_int}
    /\ Fresh

Next ==
    \/ Vin
    \/ Vout
    \/ NumVout
    \/ NumVoutOffset
    \/ Vout0Offset

Spec == Init /\ [][Next]_vars

(***************************************************************************)
(* SpecCodec: skip_commitment on streams of commitments                    *)
(***************************************************************************)
CommitmentTags == {0, 1, 9, 255}

RECURSIVE CommitmentsBytes(_)
CommitmentsBytes(tags) ==
    IF Len(tags) = 0 THEN EMPTY
    ELSE CommitmentBytes(Head(tags)) \o CommitmentsBytes(Tail(tags))

InitCodec ==
    /\ \E tags \in SeqsUpTo(CommitmentTags, MaxCommitments) :
         data = CommitmentsBytes(tags)
    /\ ins = <<>>
    /\ outs = <<>>
    /\ offset = 0
    /\ has_tx = FALSE
    /\ value \in {x \in Values : x.is_int}
    /\ Fresh

NextCodec == SkipCommitment

SpecCodec == InitCodec /\ [][NextCodec]_vars

(***************************************************************************)
(* SpecMemo: the memoized accessors of the two views and clear_cache       *)
(***************************************************************************)
NextMemo ==
    \/ NumVout
    \/ HashIssuances
    \/ HashRangeproofs
    \/ HashOutputs
    \/ ClearCache

SpecMemo == Init /\ [][NextMemo]_vars

(***************************************************************************)
(* SpecSighash: a PSETView of a well-formed document, with the transaction *)
(* view (has_tx) or with the inputs' scopes only                           *)
(***************************************************************************)
InitSighash ==
    /\ offset \in Offsets
    /\ ins \in SeqsUpTo({PlainInput}, MaxVin)
    /\ outs \in SeqsUpTo({PlainOutput}, MaxVout)
    /\ data = Document(offset, ins, outs)
    /\ has_tx \in BOOLEAN
    /\ value \in Values
    /\ Fresh

NextSighash ==
    \/ SighashSegwit
    \/ ClearCache

SpecSighash == InitSighash /\ [][NextSighash]_vars

(***************************************************************************)
(* Reference: where the records of the document are, from the inputs and   *)
(* outputs it was serialized from, and a scan of the raw bytes by absolute *)
(* index                                                                   *)
(***************************************************************************)
TagLen(tag) == IF tag = 0 THEN 1 ELSE IF tag = 1 THEN 9 ELSE 33

InputLen(inp) ==
    41 + inp.sig + (IF inp.iss = <<>> THEN 0 ELSE 64 + TagLen(inp.iss[1]) + TagLen(inp.iss[2]))

OutputLen(out) == 33 + TagLen(out.value) + TagLen(out.nonce) + 1 + out.script

RECURSIVE InputsLen(_)
InputsLen(n) == IF n = 0 THEN 0 ELSE InputsLen(n - 1) + InputLen(ins[n])

RECURSIVE OutputsLen(_)
OutputsLen(n) == IF n = 0 THEN 0 ELSE OutputsLen(n - 1) + OutputLen(outs[n])

TrueVin0 == offset + 4 + 1 + 1
TrueNumVoutOffset == TrueVin0 + InputsLen(Len(ins))
TrueVout0 == TrueNumVoutOffset + 1
\* the scriptsigs of the first n inputs are empty, as the transaction form requires
EmptyScriptsigs(n) == \A k \in 1..n : ins[k].sig = 0

\* the byte at absolute offset o, NONE past the end
Byte(o) == IF o < Len(data) THEN data[o + 1] ELSE NONE
RawTagLen(o) == IF Byte(o) = 0 THEN 1 ELSE IF Byte(o) = 1 THEN 9 ELSE 33

\* length of the input found at offset o, by the layout txid, vout, one zero
\* byte, sequence, and an issuance when bit 31 of vout is set and vout is not
\* 0xFFFFFFFF
RawInputLen(o) ==
    IF Byte(o + 35) >= 128 /\ SubSeq(data, o + 33, o + 36) # <<255, 255, 255, 255>>
    THEN 41 + 64 + RawTagLen(o + 105) + RawTagLen(o + 105 + RawTagLen(o + 105))
    ELSE 41

RECURSIVE RawInputOffset(_, _)
RawInputOffset(o, n) == IF n = 0 THEN o ELSE RawInputOffset(o + RawInputLen(o), n - 1)

\* length of the output found at offset o; the script length is one byte
RawOutputLen(o) ==
    LET vlen == IF Byte(o + 33) = 1 THEN 9 ELSE 33
        nlen == IF Byte(o + 33 + vlen) = 0 THEN 1 ELSE 33
    IN  33 + vlen + nlen + 1 + Byte(o + 33 + vlen + nlen)

RECURSIVE RawOutputOffset(_, _)
RawOutputOffset(o, n) == IF n = 0 THEN o ELSE RawOutputOffset(o + RawOutputLen(o), n - 1)

LogOf(fn) == { k \in 1..Len(last.log) : last.log[k].fn = fn }

(***************************************************************************)
(* C1                                                                      *)
(***************************************************************************)
\* C1: vin(i) and vout(i) raise the invalid-index error (PSBTError) for every
\* i < 0 and every i >= count, count being num_vin for vin and num_vout for
\* vout (the value the view read, and the number of records the document was
\* serialized from), count 0 included; no record is returned.
C1_InvalidIndex ==
    /\ (last.op \in {"vin", "vout"} /\ last.arg < 0)
          => (last.err = "PSBTError" /\ last.rec = EMPTY)
    /\ (last.op = "vin" /\ _num_vin # NONE /\ last.arg >= _num_vin)
          => (last.err = "PSBTError" /\ last.rec = EMPTY)
    /\ (last.op = "vin" /\ Len(data) > offset + NUM_VIN_OFFSET /\ last.arg >= Len(ins))
          => last.err = "PSBTError"
    /\ (last.op = "vout" /\ _num_vout # NONE /\ last.arg >= _num_vout)
          => (last.err = "PSBTError" /\ last.rec = EMPTY)
    /\ (last.op = "vout" /\ Len(data) > TrueNumVoutOffset /\ EmptyScriptsigs(Len(ins))
          /\ last.arg >= Len(outs))
          => last.err = "PSBTError"

\* vout(0) on a complete document without outputs
C1_Witness ==
    /\ last.op = "vout"
    /\ last.arg = 0
    /\ _num_vout = 0
    /\ Len(outs) = 0
    /\ Len(ins) = 2
    /\ last.err = "PSBTError"

(***************************************************************************)
(* C2                                                                      *)
(***************************************************************************)
\* C2: when the stream ends before the bytes a call needs, the call fails:
\* a _skip_input that starts less than 41 bytes before the end of the stream
\* raises, and no cached num_vout_offset lies beyond the end of the stream.
C2_TruncatedFails ==
    /\ \A k \in LogOf("_skip_input") :
          last.log[k].from + 41 > Len(data) => last.log[k].err # "none"
    /\ _num_vout_offset # NONE => _num_vout_offset <= Len(data)

(***************************************************************************)
(* C3                                                                      *)
(***************************************************************************)
\* C3: _skip_input fails when the scriptsig length byte of the input it skips
\* is not 0.
C3_ScriptsigChecked ==
    \A k \in LogOf("_skip_input") :
        (last.log[k].from + 37 <= Len(data) /\ Byte(last.log[k].from + 36) # 0)
            => last.log[k].err # "none"

(***************************************************************************)
(* C4                                                                      *)
(***************************************************************************)
\* C4: a vin(i) that returns started deserializing at vin0_offset plus the
\* lengths of inputs 0..i-1 (41, or 41 + 64 + the two commitment lengths with
\* an issuance), whatever was called before and wherever the stream was; the
\* txid returned is the one found there, and on a document whose inputs before
\* i have empty scriptsigs it is the txid input i was serialized from.
C4_VinOffset ==
    (last.op = "vin" /\ last.err = "none") =>
        /\ last.start = RawInputOffset(_vin0_offset, last.arg)
        /\ SubSeq(last.rec, 1, 32) = Reverse(SubSeq(data, last.start + 1, last.start + 32))
        /\ EmptyScriptsigs(last.arg) =>
              /\ last.start = TrueVin0 + InputsLen(last.arg)
              /\ SubSeq(last.rec, 1, 32) = Reverse(TxidBytes(last.arg + 1))

\* vin(1) behind an input with an issuance, after num_vout was read and the
\* stream left elsewhere
C4_Witness ==
    /\ last.op = "vin"
    /\ last.err = "none"
    /\ last.arg = 1
    /\ ins[1].iss # <<>>
    /\ _num_vout # NONE
    /\ last.from > last.start
    /\ SubSeq(last.rec, 1, 32) = Reverse(TxidBytes(2))

(***************************************************************************)
(* C5                                                                      *)
(***************************************************************************)
\* C5: a memoized accessor (num_vout, hash_issuances, hash_rangeproofs,
\* hash_outputs) called again with no clear_cache since it last returned
\* returns the same value, without any read or seek on the stream and without
\* any blinded_vout call.
C5_MemoHit ==
    (last.op \in Memoized /\ last.prev # EMPTY) =>
        /\ last.err = "none"
        /\ (IF last.op = "num_vout" THEN <<last.ret>> ELSE last.rec) = last.prev
        /\ last.io = 0
        /\ last.bv = 0
        /\ last.to = last.from

\* hash_outputs called again on a view with two outputs
C5_Witness ==
    /\ last.op = "hash_outputs"
    /\ last.prev # EMPTY
    /\ num_outputs = 2
    /\ _num_vout = 2

(***************************************************************************)
(* C6                                                                      *)
(***************************************************************************)
\* C6: skip_commitment started at any position p that holds a tag byte returns
\* 1, 9 or 33 for tag 0x00, tag 0x01 and any other tag, and leaves the stream
\* at p plus the number returned.
C6_SkipCommitment ==
    (last.op = "skip_commitment" /\ last.from < Len(data)) =>
        /\ last.err = "none"
        /\ last.ret = (IF Byte(last.from) = 0 THEN 1 ELSE IF Byte(last.from) = 1 THEN 9 ELSE 33)
        /\ last.to = last.from + last.ret

\* an explicit commitment that is not at the start of the stream
C6_Witness ==
    /\ last.op = "skip_commitment"
    /\ last.from > 0
    /\ last.from + 9 <= Len(data)
    /\ Byte(last.from) = 1
    /\ last.ret = 9

(***************************************************************************)
(* C7, C8                                                                  *)
(***************************************************************************)
\* the flags of a sighash value, read off its bits
BaseOf(sighash) == sighash % 64
RangeproofBit(sighash) == (sighash \div 64) % 2 = 1
AnyonecanpayBit(sighash) == sighash >= 128

\* the digests of all outputs and of all their proofs, outputs 0..n-1 in order
RefOutputsDigest ==
    sha256(Concat([j \in 1..num_outputs |-> out_serialize(j - 1)]))
RefRangeproofsDigest ==
    sha256(Concat([j \in 1..num_outputs |->
        range_proof_serialize(j - 1) \o surjection_proof_serialize(j - 1)]))

\* what sighash_segwit hashed between the sequence of the input and the locktime
OutputsTermHashed == Concat(SubSeq(last.upd, 10, Len(last.upd) - 2))

\* C7: the outputs term of sighash_segwit is SHA256(hash_outputs), followed
\* by SHA256(hash_rangeproofs) when the rangeproof flag is set, for a base
\* mode that is neither NONE nor SINGLE; for SINGLE with input_index <
\* num_outputs it is the double SHA-256 of that output's serialization,
\* followed by the double SHA-256 of its witness when the flag is set; for
\* NONE, and for SINGLE with input_index >= num_outputs, it is 32 zero bytes.
C7_OutputsTerm ==
    (last.op = "sighash_segwit" /\ last.err = "none") =>
        /\ Len(last.upd) >= 12
        /\ OutputsTermHashed =
             IF BaseOf(last.flags) \notin {2, 3}
             THEN sha256(RefOutputsDigest)
                    \o (IF RangeproofBit(last.flags) THEN sha256(RefRangeproofsDigest)
                        ELSE EMPTY)
             ELSE IF BaseOf(last.flags) = 3 /\ last.arg < num_outputs
             THEN sha256(sha256(out_serialize(last.arg)))
                    \o (IF RangeproofBit(last.flags)
                        THEN sha256(sha256(witness_serialize(last.arg)))
                        ELSE EMPTY)
             ELSE Rep(0, 32)

\* SINGLE for the second input of a transaction with one output
C7_Witness ==
    /\ last.op = "sighash_segwit"
    /\ last.err = "none"
    /\ BaseOf(last.flags) = 3
    /\ RangeproofBit(last.flags)
    /\ last.arg = 1
    /\ num_outputs = 1
    /\ OutputsTermHashed = Rep(0, 32)

\* C8: sighash_segwit hashes, right after the version and before
\* SHA256(hash_issuances), the prevouts term and then the sequences term: the
\* prevouts term is 32 zero bytes exactly when ANYONECANPAY is set and
\* SHA256(hash_prevouts) otherwise; the sequences term is 32 zero bytes
\* exactly when ANYONECANPAY is set or the base mode is NONE or SINGLE, and
\* SHA256(hash_sequence) otherwise.
C8_PrevoutsSequences ==
    (last.op = "sighash_segwit" /\ last.err = "none") =>
        /\ Len(last.upd) >= 4
        /\ last.upd[1] = tx_version_bytes
        /\ last.upd[2] = (IF AnyonecanpayBit(last.flags) THEN Rep(0, 32)
                          ELSE sha256(hash_prevouts))
        /\ last.upd[3] = (IF AnyonecanpayBit(last.flags) \/ BaseOf(last.flags) \in {2, 3}
                          THEN Rep(0, 32)
                          ELSE sha256(hash_sequence))
        /\ last.upd[4] = sha256(sha256(Rep(0, num_inputs)))
        /\ sha256(hash_prevouts) # Rep(0, 32)
        /\ sha256(hash_sequence) # Rep(0, 32)

\* NONE without ANYONECANPAY: the prevouts are hashed, the sequences are not
C8_Witness ==
    /\ last.op = "sighash_segwit"
    /\ last.err = "none"
    /\ last.flags = 2
    /\ num_inputs = 2
    /\ last.upd[2] = sha256(hash_prevouts)
    /\ last.upd[3] = Rep(0, 32)

(***************************************************************************)
(* C9                                                                      *)
(***************************************************************************)
\* C9: the number a _skip_input returns is always the number of bytes it
\* moved the stream forward: 41, or 41 + 64 + the two commitment lengths when
\* bit 31 of vout is set and vout is not 0xFFFFFFFF; the num_vout_offset a
\* scan of the inputs caches is the position the scan left the stream at, and
\* vout0_offset is num_vout_offset plus the encoded length of num_vout.
C9_SkipInputCount ==
    /\ \A k \in LogOf("_skip_input") :
          last.log[k].err = "none" =>
              /\ last.log[k].ret = last.log[k].to - last.log[k].from
              /\ last.log[k].ret = RawInputLen(last.log[k].from)
    /\ (last.op = "num_vout_offset" /\ last.err = "none" /\ last.io > 0)
          => last.ret = last.to
    /\ _vout0_offset # NONE
          => _vout0_offset = _num_vout_offset + Len(compact_to_bytes(_num_vout))

\* What does hold of _skip_input: the same, where the stream holds the vout
\* field of the input skipped; and on a complete document with empty
\* scriptsigs the offsets cached are those of the output count and of the
\* first output.
SkipInputCountOnWholeInputs ==
    /\ \A k \in LogOf("_skip_input") :
          (last.log[k].err = "none" /\ last.log[k].from + 36 <= Len(data)) =>
              /\ last.log[k].ret = last.log[k].to - last.log[k].from
              /\ last.log[k].ret = RawInputLen(last.log[k].from)
    /\ (last.op = "num_vout_offset" /\ last.err = "none" /\ last.io > 0
          /\ last.to <= Len(data))
          => last.ret = last.to
    /\ (_num_vout_offset # NONE /\ _num_vout_offset <= Len(data))
          => _num_vout_offset = RawInputOffset(_vin0_offset, _num_vin)
    /\ _vout0_offset # NONE
          => _vout0_offset = _num_vout_offset + Len(compact_to_bytes(_num_vout))
    /\ (EmptyScriptsigs(Len(ins)) /\ Len(data) >= TrueNumVoutOffset) =>
          /\ _num_vout_offset # NONE => _num_vout_offset = TrueNumVoutOffset
          /\ _vout0_offset # NONE => (_vout0_offset = TrueVout0 /\ _num_vout = Len(outs))

(***************************************************************************)
(* C10                                                                     *)
(***************************************************************************)
\* C10: a _skip_output that returns moved the stream by 33 + (9 when the
\* value tag is 0x01, else 33) + (1 when the nonce tag is 0x00, else 33) + the
\* encoded script length + the script length; a vout(i) starts
\* deserializing at vout0_offset plus these lengths of outputs 0..i-1, which
\* on a document with empty scriptsigs is where output i was serialized, and
\* returns that output.
C10_VoutOffset ==
    /\ \A k \in LogOf("_skip_output") :
          last.log[k].err = "none" =>
              last.log[k].to - last.log[k].from = RawOutputLen(last.log[k].from)
    /\ (last.op = "vout" /\ last.start # NONE) =>
          /\ Cardinality(LogOf("_skip_output")) = last.arg
          /\ last.start = RawOutputOffset(_vout0_offset, last.arg)
          /\ EmptyScriptsigs(Len(ins)) => last.start = TrueVout0 + OutputsLen(last.arg)
    /\ (last.op = "vout" /\ last.err = "none" /\ EmptyScriptsigs(Len(ins)))
          => SubSeq(last.rec, 1, 33) = AssetBytes(last.arg + 1)

\* vout(1) behind a confidential output
C10_Witness ==
    /\ last.op = "vout"
    /\ last.err = "none"
    /\ last.arg = 1
    /\ outs[1].value # 1
    /\ outs[1].nonce # 0
    /\ outs[1].script > 0
    /\ last.start = TrueVout0 + OutputLen(outs[1])

====
